---- MODULE Spec2Model ----
(***************************************************************************)
(* Model of the audio-to-video job pipeline of video-wallpaper:            *)
(*   src/pages/api/upload.ts      POST handler and its background job      *)
(*   lib/audio-analyzer.ts        AudioAnalyzer (ffprobe)                  *)
(*   lib/video-generator.ts       VideoGenerator, getFrameProgress         *)
(*   lib/overlay-generator.ts     OverlayGenerator (ffmpeg passes)         *)
(*   src/pages/api/progress.ts    progress polling                         *)
(*                                                                         *)
(* The server is one Node.js process with one event loop: every action is  *)
(* one run-to-completion turn of a handler or of a continuation of the     *)
(* background job (from one awaited child-process event to the next        *)
(* spawn).  Child processes run outside the loop; their 'close' event is   *)
(* the next action of the job that spawned them.                           *)
(***************************************************************************)
EXTENDS Integers, Sequences, FiniteSets, TLC

(* ----------------------------- bounds ----------------------------------- *)
MaxDur  == 3            \* longest probed duration, in 1/DurationScale s

MaxLen  == 4            \* longest content of an arbitrary progress file

MaxSeed == 20           \* largest seed given to frame synthesis
MaxTime == 2            \* last frame synthesized: time = MaxTime / Fps
MaxOverlayDur == 40     \* longest video given overlays, in seconds, and the
                        \* longest past the second lower-third's interval
MaxPreviewDur == 108    \* longest audio whose success record is built on its
                        \* own: 108 / 45 s, 103 analysis frames

(* ------------------------ program constants ----------------------------- *)
Fps           == 30     \* VideoConfig.fps
SampleRate    == 44100  \* AudioAnalyzer.sampleRate
FrameSize     == 1024   \* AudioAnalyzer.frameSize
PreviewLength == 100    \* upload.ts: slice(0, 100)
lowerThirdInterval == 600   \* overlay-generator.ts: seconds between lower-thirds
DurationScale == 45     \* durations are fixed-point: d / 45 seconds
NaN           == -1     \* parseFloat of a non-number ("N/A", "")

\* the job identifiers randomUUID hands out: two jobs, which may run one after
\* the other or concurrently
Jobs      == {1, 2}
NoJob     == 0          \* no jobId in a response
Durations == 0..MaxDur

\* presets[].name of VideoGenerator
PresetNames == {"French New Wave", "'80s Retro Chromatic", "Wine-Country Dreamscape"}
\* style names a client submits: one catalog name and one unknown name
StyleInputs == {"French New Wave", "Nonexistent Style"}

\* exit statuses of a child process that started
ExitCodes == {0, 1}

(* ----------------------- text of the progress file ---------------------- *)
DigitChars == <<"0", "1", "2", "3", "4", "5", "6", "7", "8", "9">>

IsDigit(c) == \E d \in 1..10 : DigitChars[d] = c

DigitVal(c) == (CHOOSE d \in 1..10 : DigitChars[d] = c) - 1

RECURSIVE Digits(_)
\* Number.prototype.toString of a non-negative integer
Digits(n) == IF n < 10 THEN <<DigitChars[n + 1]>>
             ELSE Digits(n \div 10) \o <<DigitChars[(n % 10) + 1]>>

\* template-literal conversion `${n}` of a number
NumberToString(n) == IF n = NaN THEN <<"N", "a", "N">> ELSE Digits(n)

\* upload.ts: writeFileSync(progressFile, `0/1`)
PlaceholderContent == <<"0", "/", "1">>

\* generateFrames: `${frameIndex}/${totalFrames}\n`
ProgressContent(current, total) ==
    NumberToString(current) \o <<"/">> \o NumberToString(total) \o <<"\n">>

IsSpace(c) == c \in {"\n", " "}

RECURSIVE TrimLeft(_)
TrimLeft(s) == IF s # <<>> /\ IsSpace(Head(s)) THEN TrimLeft(Tail(s)) ELSE s

RECURSIVE TrimRight(_)
TrimRight(s) == IF s # <<>> /\ IsSpace(s[Len(s)])
                THEN TrimRight(SubSeq(s, 1, Len(s) - 1)) ELSE s

\* String.prototype.trim
Trim(s) == TrimRight(TrimLeft(s))

KeepDigitOrSlash(c) == IsDigit(c) \/ c = "/"

\* content.replace(/[^0-9\/]/g, '')
Sanitize(s) == SelectSeq(s, KeepDigitOrSlash)

RECURSIVE DigitRunEnd(_, _)
\* last index of the maximal run of digits of s that starts at i
DigitRunEnd(s, i) == IF i < Len(s) /\ IsDigit(s[i + 1]) THEN DigitRunEnd(s, i + 1) ELSE i

RECURSIVE ParseInt(_)
\* parseInt(text, 10) of a run of digits
ParseInt(ds) == IF ds = <<>> THEN 0
                ELSE ParseInt(SubSeq(ds, 1, Len(ds) - 1)) * 10 + DigitVal(ds[Len(ds)])

\* start indices at which /(\d+)\/(\d+)/ matches in s
MatchStarts(s) ==
    {i \in 1..Len(s) :
        /\ IsDigit(s[i])
        /\ LET e == DigitRunEnd(s, i)
           IN  e + 2 <= Len(s) /\ s[e + 1] = "/" /\ IsDigit(s[e + 2])}

Min(S) == CHOOSE x \in S : \A y \in S : x <= y

NotFound == [found |-> FALSE]

\* the parse of getFrameProgress, from the text read to the value returned
ParseProgress(text) ==
    LET content == Sanitize(Trim(text))
        starts  == MatchStarts(content)
    IN  IF starts = {} THEN NotFound
        ELSE LET i == Min(starts)
                 e == DigitRunEnd(content, i)
                 f == DigitRunEnd(content, e + 2)
             IN  [found        |-> TRUE,
                  currentFrame |-> ParseInt(SubSeq(content, i, e)),
                  totalFrames  |-> ParseInt(SubSeq(content, e + 2, f))]

(* ------------------------------- state ---------------------------------- *)
VARIABLES
    alive,          \* the server process is running
    pc,             \* pc[j]: where job j's background callback stands
    style,          \* style[j]: stylePreset captured by job j's closure
    duration,       \* duration[j]: audioAnalysis.duration once analysis resolved
    frameIndex,     \* frameIndex[j]: loop variable of generateFrames
    trace,          \* trace[j]: stage events of job j, in order (history)
    progressFile,   \* progressFile[j]: vw_progress_<j>.txt
    progressLog,    \* progressLog[j]: every (current, total) written to it (history)
    resultLog,      \* resultLog[j]: every record written to vw_result_<j>.json
    resultFile,     \* resultFile[j]: vw_result_<j>.json
    uploadsDir,     \* uploadsDir[j]: the files of job j in uploads/, each with
                    \* the step that wrote it and the file it was made from
    dateNow,        \* dateNow[j][kind]: the reading of Date.now() in the name
                    \* job j gave its file of that kind
    frames,         \* frames[i]: job that last wrote temp/frames/frame_<i>.png
    response        \* the HTTP response this step returned, if it is a handler

vars == <<alive, pc, style, duration, frameIndex, trace, progressFile,
          progressLog, resultLog, resultFile, uploadsDir, dateNow, frames,
          response>>

jobVars == <<pc, style, duration, frameIndex, trace, progressFile,
             progressLog, resultLog, resultFile, uploadsDir, dateNow, frames>>

\* Math.floor(duration * fps)
TotalFrames(d) == IF d = NaN THEN NaN ELSE (d * Fps) \div DurationScale

MaxFrames == TotalFrames(MaxDur)

FrameSlots == 0..(MaxFrames - 1)

\* a < b of two JavaScript numbers (false whenever one is NaN)
Less(a, b) == a # NaN /\ b # NaN /\ a < b

NoFile == [exists |-> FALSE, content |-> <<>>]

\* mutant of WriteFileSync: the file is opened with flag 'a', the old content
\* is kept and the new record lands behind it
AppendFileSync(file, content) == [exists |-> TRUE, content |-> file.content \o content]

\* writeFileSync(path, content) on a file in state file (flag 'w'): the file is
\* created or truncated and holds exactly content afterwards
WriteFileSync(file, content) == [exists |-> TRUE, content |-> content]

\* a step of the background job returns no HTTP response
NoResponse == [kind |-> "none"]

Record(current, total) == [current |-> current, total |-> total]

Event(stage, ev) == [stage |-> stage, ev |-> ev]

StageOrder == <<"analyze", "frames", "encode", "overlay", "thumbnail", "result">>

Init ==
    /\ alive = TRUE
    /\ pc = [j \in Jobs |-> "idle"]
    /\ style = [j \in Jobs |-> ""]
    /\ duration = [j \in Jobs |-> 0]
    /\ frameIndex = [j \in Jobs |-> 0]
    /\ trace = [j \in Jobs |-> <<>>]
    /\ progressFile = [j \in Jobs |-> NoFile]
    /\ progressLog = [j \in Jobs |-> <<>>]
    /\ resultLog = [j \in Jobs |-> <<>>]
    /\ resultFile = [j \in Jobs |-> NoFile]
    /\ uploadsDir = [j \in Jobs |-> {}]
    /\ dateNow = [j \in Jobs |-> <<>>]
    /\ frames = [i \in FrameSlots |-> NoJob]
    /\ response = NoResponse

(* ----------------------------- audio analysis --------------------------- *)
\* Audio levels are in hundredths (rms 15 is 0.15), frequencies in Hz.

\* Math.floor(duration * sampleRate / frameSize)
FrameCount(d) ==
    IF d = NaN THEN NaN ELSE (d * SampleRate) \div (DurationScale * FrameSize)

\* values generateSimulatedRMS pushes: Math.max(0, baseLevel + variation) with
\* baseLevel in [0.1, 0.3) and variation in [-0.05, 0.05]
SimulatedRms == {5, 10, 20, 34}

\* values generateSimulatedFrequencies pushes: 150 + Math.random() * 100
SimulatedFrequencies == {150, 200, 249}

\* the number of turns of  for (let i = 0; i < frameCount; i++)
LoopTurns(frameCount) == IF Less(0, frameCount) THEN frameCount ELSE 0

\* generateSimulatedRMS(frameCount): random[i] is the level turn i pushes
generateSimulatedRMS(frameCount, random) ==
    [i \in 1..LoopTurns(frameCount) |-> random[i]]

\* generateSimulatedFrequencies(frameCount)
generateSimulatedFrequencies(frameCount, random) ==
    [i \in 1..LoopTurns(frameCount) |-> random[i]]

\* detectSilence(rms): rms.map(value => value < 0.05)
detectSilence(rms) == [i \in DOMAIN rms |-> rms[i] < 5]

\* calculateVocalEnergy(frequencies): 1.0 inside 85..255 Hz, 0.5 inside
\* 42.5..510 Hz, else 0.1
calculateVocalEnergy(frequencies) ==
    [i \in DOMAIN frequencies |->
        LET freq == frequencies[i]
        IN  IF freq >= 85 /\ freq <= 255 THEN 100
            ELSE IF 2 * freq >= 85 /\ freq <= 510 THEN 50
            ELSE 10]

\* analyzeAudio(filePath) once ffprobe closed with status code and printed
\* out: the AudioAnalysis, or the error it throws
analyzeAudio(code, out, randomRms, randomFreq) ==
    IF code # 0 THEN [ok |-> FALSE, error |-> "Failed to analyze audio file"]
    ELSE LET frameCount  == FrameCount(out)
             rms         == generateSimulatedRMS(frameCount, randomRms)
             frequencies == generateSimulatedFrequencies(frameCount, randomFreq)
         IN  [ok          |-> TRUE,
              duration    |-> out,
              rms         |-> rms,
              frequencies |-> frequencies,
              silence     |-> detectSilence(rms),
              vocalEnergy |-> calculateVocalEnergy(frequencies),
              sampleRate  |-> SampleRate]

(* ------------------------- the uploads directory ------------------------ *)
\* the paths of a job's files in uploads/: audio_<ms>.<ext>, video_<ms>.mp4,
\* final_<ms>.mp4, thumbnail_<ms>.jpg
audioPath(now)      == [name |-> "audio", ms |-> now]
tempVideoPath(now)  == [name |-> "video", ms |-> now]
finalVideoPath(now) == [name |-> "final", ms |-> now]
thumbnailPath(now)  == [name |-> "thumbnail", ms |-> now]

\* job o built the name of its file of a kind in its latest turn and has
\* taken no turn since
JustNamed(o, kind) ==
    CASE kind = "audio"     -> pc[o] = "queued"
      [] kind = "video"     -> /\ frameIndex[o] = 0
                               /\ \/ pc[o] = "rendering"
                                  \/ pc[o] = "encoding"
                                  \/ /\ pc[o] = "failed"
                                     /\ trace[o][Len(trace[o])] = Event("frames", "fail")
      [] kind = "final"     -> pc[o] = "overlaying"
      [] kind = "thumbnail" -> pc[o] = "thumbnailing"

\* Readings of Date.now().  Only whether two readings in names of the same
\* kind are equal matters, so a millisecond is called after the job that read
\* it first.
\* the reading of a turn of job j that runs in a millisecond of its own
OwnMillisecond(j) == {j}

\* the readings when job j names its file of a kind and turns may follow each
\* other within a millisecond: a millisecond of its own, or the one of a job
\* that named its file of this kind in its latest turn
DateNow(j, kind) ==
    OwnMillisecond(j) \cup
        {dateNow[o][kind] : o \in {o \in Jobs \ {j} : JustNamed(o, kind)}}

\* job j builds the name of its file of a kind with the reading now
NameFile(j, kind, now) ==
    dateNow' = [dateNow EXCEPT ![j] = (kind :> now) @@ @]

\* a file in uploads/: its path, the step that wrote it, what it was made from
FileRecord(path, by, from) == [path |-> path, by |-> by, from |-> from]

\* the step of job j named by wrote path, reading from
WriteUpload(j, path, by, from) ==
    uploadsDir' = [uploadsDir EXCEPT ![j] = @ \cup {FileRecord(path, by, from)}]

(* --------------------------- POST /api/upload --------------------------- *)
\* mutant of SetImmediate: the callback is called in place, so analysis has
\* begun when POST returns its response
CallInline == "analyzing"

\* what setImmediate(callback) leaves behind: the callback is queued for a
\* later turn of the event loop, nothing of it has run
SetImmediate == "queued"

\* uploads a client submits: a missing audio part, a file over 250 MB, a
\* content type that is not audio/*, an upload whose save throws, a good one
Uploads == {u \in [hasAudio : BOOLEAN, sizeOk : BOOLEAN, typeOk : BOOLEAN,
                   saved : BOOLEAN] :
              Cardinality({f \in DOMAIN u : ~u[f]}) <= 1}

\* mutant of ResponseStatus: the missing-audio check is left out
ResponseStatusNoAudioCheck(u) ==
    IF ~u.sizeOk THEN 400
    ELSE IF ~u.typeOk THEN 400
    ELSE IF ~u.saved THEN 500
    ELSE 202

\* mutant of ResponseStatus: the size limit is left out
ResponseStatusNoSizeCheck(u) ==
    IF ~u.hasAudio THEN 400
    ELSE IF ~u.typeOk THEN 400
    ELSE IF ~u.saved THEN 500
    ELSE 202

\* the status of the response, from the validations in the order of the code;
\* saved = mkdir and writeFile of the upload did not throw
ResponseStatus(u) ==
    IF ~u.hasAudio THEN 400
    ELSE IF ~u.sizeOk THEN 400
    ELSE IF ~u.typeOk THEN 400
    ELSE IF ~u.saved THEN 500
    ELSE 202

\* randomUUID(): an identifier no job has had before.  Identifiers are opaque,
\* so the model hands them out in order.
RandomUUID == Cardinality({j \in Jobs : pc[j] # "idle"}) + 1

\* the response to an upload, with the request it answers
UploadResponse(status, jobId, u, stylePreset) ==
    [kind |-> "upload", status |-> status, jobId |-> jobId,
     upload |-> u, stylePreset |-> stylePreset]

POST(u, stylePreset, now) ==
    /\ alive
    /\ IF ResponseStatus(u) # 202
       THEN /\ response' = UploadResponse(ResponseStatus(u), NoJob, u, stylePreset)
            /\ UNCHANGED <<alive, jobVars>>
       ELSE \E jobId \in Jobs :
            /\ jobId = RandomUUID
            /\ style' = [style EXCEPT ![jobId] = stylePreset]
            /\ progressFile' = [progressFile EXCEPT
                                  ![jobId] = WriteFileSync(@, PlaceholderContent)]
            /\ progressLog' = [progressLog EXCEPT ![jobId] = Append(@, Record(0, 1))]
            /\ NameFile(jobId, "audio", now)
            /\ WriteUpload(jobId, audioPath(now), "upload", "request")
            /\ pc' = [pc EXCEPT ![jobId] = SetImmediate]
            /\ response' = UploadResponse(202, jobId, u, stylePreset)
            /\ UNCHANGED <<alive, duration, frameIndex, trace, resultLog, resultFile, frames>>

(* ----------------------- the background job ----------------------------- *)
\* spawn(program, args): the child starts, or it does not (ENOENT, EAGAIN).
\* No 'error' listener is attached to any child, so the 'error' event of a
\* child that did not start is thrown as an uncaught exception and ends the
\* process.
Spawn(j, stage, started) ==
    /\ pc' = [pc EXCEPT ![j] = stage]
    /\ alive' = started
    /\ response' = NoResponse

\* the members of the terminal records, in the order the object literals of
\* the background job list them
RecordKeys == <<"success", "error", "details", "videoPath", "thumbnailPath",
                "duration", "jobId", "analysis">>

\* catch (error) of the background job: the failure record
FailureRecord(j, text, arg) ==
    [error   |-> "Failed to process upload",
     details |-> [text |-> text, arg |-> arg],
     jobId   |-> j]

\* mutant of Slice: the element at index end is taken too
SliceInclusive(array, start, end) ==
    SubSeq(array, start + 1, Min({end + 1, Len(array)}))

\* array.slice(start, end): the elements at indices start .. end - 1 that exist
Slice(array, start, end) == SubSeq(array, start + 1, Min({end, Len(array)}))

\* the analysis member of the success record
AnalysisPreview(audioAnalysis) ==
    [rms         |-> Slice(audioAnalysis.rms, 0, PreviewLength),
     vocalEnergy |-> Slice(audioAnalysis.vocalEnergy, 0, PreviewLength),
     silence     |-> Slice(audioAnalysis.silence, 0, PreviewLength)]

\* mutant of SuccessRecordOf: the record reports the encoder's output
SuccessRecordOfEncoderOutput(jobId, audioAnalysis, final, thumbnail) ==
    [success       |-> TRUE,
     videoPath     |-> tempVideoPath(final.ms),
     thumbnailPath |-> thumbnail,
     duration      |-> audioAnalysis.duration,
     jobId         |-> jobId,
     analysis      |-> AnalysisPreview(audioAnalysis)]

\* the success record of a job with the given analysis and the paths of its
\* final video and its thumbnail
SuccessRecordOf(jobId, audioAnalysis, final, thumbnail) ==
    [success       |-> TRUE,
     videoPath     |-> final,
     thumbnailPath |-> thumbnail,
     duration      |-> audioAnalysis.duration,
     jobId         |-> jobId,
     analysis      |-> AnalysisPreview(audioAnalysis)]

\* audioAnalysis of job j.  The job keeps the probed duration; the simulated
\* levels are taken at one fixed draw (rms 0.1, 150 Hz) here, and at every
\* draw where analyzeAudio and the preview are checked on their own.
JobAnalysis(j) ==
    analyzeAudio(0, duration[j], [i \in 1..FrameCount(MaxDur) |-> 10],
                 [i \in 1..FrameCount(MaxDur) |-> 150])

\* the success record
SuccessRecord(j) ==
    SuccessRecordOf(j, JobAnalysis(j), finalVideoPath(dateNow[j]["final"]),
                    thumbnailPath(dateNow[j]["thumbnail"]))

\* JSON.stringify of one member: a number that is NaN is written as null
\* (duration is the one numeric member whose value the job computes)
JSONvalue(key, v) == IF key = "duration" /\ v = NaN THEN "null" ELSE v

\* JSON.stringify(record): the members of the record, in the order of
\* the object literal, each a key with the text of its value
JSONstringify(record) ==
    LET keys == SelectSeq(RecordKeys, LAMBDA k : k \in DOMAIN record)
    IN  [i \in 1..Len(keys) |-> <<keys[i], JSONvalue(keys[i], record[keys[i]])>>]

\* JSON.parse(text): the object with the members the text lists
JSONparse(text) ==
    [k \in {text[i][1] : i \in DOMAIN text} |->
        LET i == CHOOSE n \in DOMAIN text : text[n][1] = k IN text[i][2]]

\* writeFileSync(resultFile, JSON.stringify(record))
WriteResult(j, record) ==
    /\ resultLog' = [resultLog EXCEPT ![j] = Append(@, record)]
    /\ resultFile' = [resultFile EXCEPT ![j] = WriteFileSync(@, JSONstringify(record))]

\* a stage rejected or threw: the catch block of the background job writes the
\* failure record; events are the stage events up to and including the failure
Catch(j, events, text, arg) ==
    /\ trace' = [trace EXCEPT ![j] = @ \o events]
    /\ WriteResult(j, FailureRecord(j, text, arg))
    /\ pc' = [pc EXCEPT ![j] = "failed"]
    /\ response' = NoResponse
    /\ UNCHANGED alive

\* the setImmediate callback: analyzeAudio -> getAudioDuration spawns ffprobe
BackgroundJob(j) ==
    /\ alive
    /\ pc[j] = "queued"
    /\ \E started \in BOOLEAN : Spawn(j, "analyzing", started)
    /\ trace' = [trace EXCEPT ![j] = Append(@, Event("analyze", "start"))]
    /\ UNCHANGED <<style, duration, frameIndex, progressFile, progressLog,
                   resultLog, resultFile, uploadsDir, dateNow, frames>>

\* the progress writes of one turn, in order: each is
\* writeFileSync(progressFile, `${current}/${total}\n`), the file keeps the last
WriteProgress(j, writes) ==
    /\ progressLog' = [progressLog EXCEPT ![j] = @ \o writes]
    /\ progressFile' =
          IF writes = <<>> THEN progressFile
          ELSE LET last == writes[Len(writes)]
               IN  [progressFile EXCEPT
                      ![j] = WriteFileSync(@, ProgressContent(last.current,
                                                                 last.total))]

\* generateFrames from loop index k up to its next await: either frame k is
\* synthesized, its SVG written and `convert` spawned, or the loop is over, the
\* final progress is written and compileVideo spawns ffmpeg.  writes are the
\* progress writes made earlier in the same turn, events the stage events.
\* (frame_<k>.svg shares its directory and index with frame_<k>.png and is
\* overwritten in the same way; the model follows the PNG the encoder reads.)
FrameLoop(j, k, total, writes, events, started) ==
    /\ frameIndex' = [frameIndex EXCEPT ![j] = k]
    /\ IF Less(k, total)
       THEN /\ WriteProgress(j, writes)
            /\ trace' = [trace EXCEPT ![j] = @ \o events]
            /\ Spawn(j, "rendering", started)
       ELSE /\ WriteProgress(j, Append(writes, Record(total, total)))
            /\ trace' = [trace EXCEPT ![j] = @ \o events \o
                            <<Event("frames", "ok"), Event("encode", "start")>>]
            /\ Spawn(j, "encoding", started)

\* presets.find(p => p.name === stylePresetName) found a preset
PresetFound(name) == name \in PresetNames

\* ffprobe closed: getAudioDuration resolves parseFloat(output) on status 0 and
\* rejects otherwise; analyzeAudio rethrows 'Failed to analyze audio file';
\* then generateVideo: preset lookup, frames directory, generateFrames
ffprobeClose(j, code, out, now) ==
    /\ alive
    /\ pc[j] = "analyzing"
    /\ IF code # 0
       THEN /\ Catch(j, <<Event("analyze", "fail")>>,
                     "Failed to analyze audio file", "")
            /\ UNCHANGED <<style, duration, frameIndex, progressFile, progressLog,
                           uploadsDir, dateNow, frames>>
       ELSE /\ duration' = [duration EXCEPT ![j] = out]
            /\ NameFile(j, "video", now)
            /\ IF ~PresetFound(style[j])
               THEN /\ Catch(j, <<Event("analyze", "ok"), Event("frames", "start"),
                                  Event("frames", "fail")>>,
                             "Style preset not found", style[j])
                    /\ UNCHANGED <<frameIndex, progressFile, progressLog>>
               ELSE /\ \E started \in BOOLEAN :
                           FrameLoop(j, 0, TotalFrames(out), <<>>,
                                     <<Event("analyze", "ok"), Event("frames", "start")>>,
                                     started)
                    /\ UNCHANGED <<resultLog, resultFile>>
            /\ UNCHANGED <<style, uploadsDir, frames>>

\* `convert` closed: on status 0 it wrote the PNG, otherwise createFallbackPNG
\* writes it; then the progress of this frame is written and the loop goes on
convertClose(j, code) ==
    /\ alive
    /\ pc[j] = "rendering"
    /\ LET k     == frameIndex[j]
           total == TotalFrames(duration[j])
       IN  /\ frames' = [frames EXCEPT ![k] = j]
           /\ \E started \in BOOLEAN :
                  FrameLoop(j, k + 1, total, <<Record(k, total)>>, <<>>, started)
    /\ UNCHANGED <<style, duration, resultLog, resultFile, uploadsDir, dateNow>>

\* the images ffmpeg reads for the input frame_%06d.png: the files of the
\* frames directory from index 0 up to the first index that has no file
EncoderInput == {i \in FrameSlots : \A k \in 0..i : frames[k] # NoJob}

\* mutant of compileVideoClose: the 'close' handler resolves whatever the exit
\* status, so the overlay pass starts after a failed encode
compileVideoCloseIgnoringStatus(j, code, now) ==
    /\ alive
    /\ pc[j] = "encoding"
    /\ \E started \in BOOLEAN : Spawn(j, "overlaying", started)
    /\ trace' = [trace EXCEPT ![j] = @ \o
                    <<Event("encode", IF code = 0 THEN "ok" ELSE "fail"),
                      Event("overlay", "start")>>]
    /\ NameFile(j, "final", now)
    /\ UNCHANGED <<style, duration, frameIndex, progressFile, progressLog,
                   resultLog, resultFile, uploadsDir, frames>>

\* the encoder closed: compileVideo resolves on status 0, and addOverlays spawns
\* the overlay pass; otherwise it rejects
compileVideoClose(j, code, now) ==
    /\ alive
    /\ pc[j] = "encoding"
    /\ IF code = 0
       THEN /\ \E started \in BOOLEAN : Spawn(j, "overlaying", started)
            /\ trace' = [trace EXCEPT ![j] = @ \o
                            <<Event("encode", "ok"), Event("overlay", "start")>>]
            /\ WriteUpload(j, tempVideoPath(dateNow[j]["video"]), "encode", "frames")
            /\ NameFile(j, "final", now)
            /\ UNCHANGED <<resultLog, resultFile>>
       ELSE /\ Catch(j, <<Event("encode", "fail")>>,
                     "FFmpeg compilation failed with code", "1")
            /\ UNCHANGED <<uploadsDir, dateNow>>
    /\ UNCHANGED <<style, duration, frameIndex, progressFile, progressLog,
                   frames>>

\* mutant of applyOverlaysClose: a failed overlay pass is run again
applyOverlaysCloseRetry(j, code, now) ==
    /\ alive
    /\ pc[j] = "overlaying"
    /\ IF code = 0
       THEN /\ \E started \in BOOLEAN : Spawn(j, "thumbnailing", started)
            /\ trace' = [trace EXCEPT ![j] = @ \o
                            <<Event("overlay", "ok"), Event("thumbnail", "start")>>]
            /\ NameFile(j, "thumbnail", now)
       ELSE /\ \E started \in BOOLEAN : Spawn(j, "overlaying", started)
            /\ trace' = [trace EXCEPT ![j] = @ \o
                            <<Event("overlay", "fail"), Event("overlay", "start")>>]
            /\ UNCHANGED dateNow
    /\ UNCHANGED <<style, duration, frameIndex, progressFile, progressLog,
                   resultLog, resultFile, uploadsDir, frames>>

\* mutant of applyOverlaysClose: when the overlay pass fails the job goes on
\* to the thumbnail with the encoder's output
applyOverlaysCloseFallback(j, code, now) ==
    /\ alive
    /\ pc[j] = "overlaying"
    /\ \E started \in BOOLEAN : Spawn(j, "thumbnailing", started)
    /\ trace' = [trace EXCEPT ![j] = @ \o
                    <<Event("overlay", IF code = 0 THEN "ok" ELSE "fail"),
                      Event("thumbnail", "start")>>]
    /\ NameFile(j, "thumbnail", now)
    /\ UNCHANGED <<style, duration, frameIndex, progressFile, progressLog,
                   resultLog, resultFile, uploadsDir, frames>>

\* mutant of applyOverlaysClose: the rejection carries the encoder's message
applyOverlaysCloseEncoderMessage(j, code, now) ==
    /\ alive
    /\ pc[j] = "overlaying"
    /\ IF code = 0
       THEN /\ \E started \in BOOLEAN : Spawn(j, "thumbnailing", started)
            /\ trace' = [trace EXCEPT ![j] = @ \o
                            <<Event("overlay", "ok"), Event("thumbnail", "start")>>]
            /\ WriteUpload(j, finalVideoPath(dateNow[j]["final"]), "overlay",
                           tempVideoPath(dateNow[j]["video"]))
            /\ NameFile(j, "thumbnail", now)
            /\ UNCHANGED <<resultLog, resultFile>>
       ELSE /\ Catch(j, <<Event("overlay", "fail")>>,
                     "FFmpeg compilation failed with code", "1")
            /\ UNCHANGED <<uploadsDir, dateNow>>
    /\ UNCHANGED <<style, duration, frameIndex, progressFile, progressLog,
                   frames>>

\* the overlay pass closed: applyOverlays resolves on status 0, and
\* generateThumbnail spawns ffmpeg; otherwise it rejects
applyOverlaysClose(j, code, now) ==
    /\ alive
    /\ pc[j] = "overlaying"
    /\ IF code = 0
       THEN /\ \E started \in BOOLEAN : Spawn(j, "thumbnailing", started)
            /\ trace' = [trace EXCEPT ![j] = @ \o
                            <<Event("overlay", "ok"), Event("thumbnail", "start")>>]
            /\ WriteUpload(j, finalVideoPath(dateNow[j]["final"]), "overlay",
                           tempVideoPath(dateNow[j]["video"]))
            /\ NameFile(j, "thumbnail", now)
            /\ UNCHANGED <<resultLog, resultFile>>
       ELSE /\ Catch(j, <<Event("overlay", "fail")>>,
                     "FFmpeg overlay failed with code", "1")
            /\ UNCHANGED <<uploadsDir, dateNow>>
    /\ UNCHANGED <<style, duration, frameIndex, progressFile, progressLog,
                   frames>>

\* the thumbnail pass closed: on status 0 the success record is written
generateThumbnailClose(j, code) ==
    /\ alive
    /\ pc[j] = "thumbnailing"
    /\ IF code = 0
       THEN /\ trace' = [trace EXCEPT ![j] = @ \o
                            <<Event("thumbnail", "ok"), Event("result", "start"),
                              Event("result", "ok")>>]
            /\ WriteUpload(j, thumbnailPath(dateNow[j]["thumbnail"]), "thumbnail",
                           finalVideoPath(dateNow[j]["final"]))
            /\ WriteResult(j, SuccessRecord(j))
            /\ pc' = [pc EXCEPT ![j] = "done"]
            /\ response' = NoResponse
            /\ UNCHANGED alive
       ELSE /\ Catch(j, <<Event("thumbnail", "fail")>>,
                     "FFmpeg thumbnail generation failed with code", "1")
            /\ UNCHANGED uploadsDir
    /\ UNCHANGED <<style, duration, frameIndex, progressFile, progressLog,
                   dateNow, frames>>

(* --------------------------- GET /api/progress -------------------------- *)
\* getFrameProgress(jobId): null when the file is absent or does not parse
getFrameProgress(jobId) ==
    IF ~progressFile[jobId].exists THEN NotFound
    ELSE ParseProgress(progressFile[jobId].content)

\* 404 when getFrameProgress returns null, else 200 with the progress
GETprogress(jobId) ==
    /\ alive
    /\ response' = [kind     |-> "progress",
                    status   |-> IF getFrameProgress(jobId).found THEN 200 ELSE 404,
                    jobId    |-> jobId,
                    progress |-> getFrameProgress(jobId)]
    /\ UNCHANGED <<alive, jobVars>>

(* -------------------------- GET /api/job-result ------------------------- *)
\* mutant of existsSync: the handler reads the result file without looking
\* whether it is there
existsSyncAssumed(file) == TRUE

\* existsSync(path) of a file in state file
existsSync(file) == file.exists

\* 202 {status: 'pending'} while the result file is absent, else 200 with
\* JSON.parse of the file
GETjobResult(jobId) ==
    /\ alive
    /\ response' = IF ~existsSync(resultFile[jobId])
                   THEN [kind |-> "result", status |-> 202, jobId |-> jobId,
                         body |-> [status |-> "pending"]]
                   ELSE [kind |-> "result", status |-> 200, jobId |-> jobId,
                         body |-> JSONparse(resultFile[jobId].content)]
    /\ UNCHANGED <<alive, jobVars>>

(* ---------------------------- specification ----------------------------- *)
\* every step of job j's background callback, each turn that names a file in
\* a millisecond of its own
JobStep(j) ==
    \/ BackgroundJob(j)
    \/ \E code \in ExitCodes, out \in Durations \cup {NaN}, now \in OwnMillisecond(j) :
          ffprobeClose(j, code, out, now)
    \/ \E code \in ExitCodes : convertClose(j, code)
    \/ \E code \in ExitCodes, now \in OwnMillisecond(j) : compileVideoClose(j, code, now)
    \/ \E code \in ExitCodes, now \in OwnMillisecond(j) : applyOverlaysClose(j, code, now)
    \/ \E code \in ExitCodes : generateThumbnailClose(j, code)

Next ==
    \/ \E u \in Uploads, stylePreset \in StyleInputs, now \in OwnMillisecond(RandomUUID) :
          POST(u, stylePreset, now)
    \/ \E j \in Jobs : JobStep(j)
    \/ \E jobId \in Jobs : GETprogress(jobId)
    \/ \E jobId \in Jobs : GETjobResult(jobId)

Spec == Init /\ [][Next]_vars

\* every step of job j's background callback, turns following each other
\* within a millisecond included; the audio files all have the longest
\* duration
ClockJobStep(j) ==
    \/ BackgroundJob(j)
    \/ \E code \in ExitCodes, out \in {MaxDur}, now \in DateNow(j, "video") :
          ffprobeClose(j, code, out, now)
    \/ \E code \in ExitCodes : convertClose(j, code)
    \/ \E code \in ExitCodes, now \in DateNow(j, "final") : compileVideoClose(j, code, now)
    \/ \E code \in ExitCodes, now \in DateNow(j, "thumbnail") :
          applyOverlaysClose(j, code, now)
    \/ \E code \in ExitCodes : generateThumbnailClose(j, code)

ClockNext ==
    \/ \E u \in Uploads, stylePreset \in StyleInputs, now \in DateNow(RandomUUID, "audio") :
          POST(u, stylePreset, now)
    \/ \E j \in Jobs : ClockJobStep(j)
    \/ \E jobId \in Jobs : GETprogress(jobId)
    \/ \E jobId \in Jobs : GETjobResult(jobId)

\* the server with every timing of its turns
ClockSpec == Init /\ [][ClockNext]_vars

\* the event loop runs every queued callback, and every child process that was
\* started exits: each enabled step of a job is eventually taken
FairSpec == Spec /\ \A j \in Jobs : WF_vars(JobStep(j))

(* ------------------- reading an arbitrary progress file ------------------ *)
\* characters a progress file may hold: digits, the separator, a character
\* that is neither, and the line end
FileChars == {"1", "2", "/", "x", "\n"}

\* every content of at most MaxLen characters
FileContents == UNION {[1..n -> FileChars] : n \in 0..MaxLen}

\* the progress file of job 1 holds any content; nothing else has happened
ReadInit ==
    /\ alive = TRUE
    /\ pc = [j \in Jobs |-> "idle"]
    /\ style = [j \in Jobs |-> ""]
    /\ duration = [j \in Jobs |-> 0]
    /\ frameIndex = [j \in Jobs |-> 0]
    /\ trace = [j \in Jobs |-> <<>>]
    /\ \E content \in FileContents :
          progressFile = [j \in Jobs |->
                            IF j = 1 THEN WriteFileSync(NoFile, content) ELSE NoFile]
    /\ progressLog = [j \in Jobs |-> <<>>]
    /\ resultLog = [j \in Jobs |-> <<>>]
    /\ resultFile = [j \in Jobs |-> NoFile]
    /\ uploadsDir = [j \in Jobs |-> {}]
    /\ dateNow = [j \in Jobs |-> <<>>]
    /\ frames = [i \in FrameSlots |-> NoJob]
    /\ response = NoResponse

ReadNext == \E jobId \in Jobs : GETprogress(jobId)

ReadSpec == ReadInit /\ [][ReadNext]_vars

(* ------------------------- one call of analyzeAudio ---------------------- *)
\* one call of analyzeAudio, with every outcome of the probe and every draw of
\* the simulated levels
AnalyzeAudioCall ==
    /\ response = NoResponse
    /\ \E code \in ExitCodes, out \in Durations \cup {NaN},
          randomRms \in [1..FrameCount(MaxDur) -> SimulatedRms],
          randomFreq \in [1..FrameCount(MaxDur) -> SimulatedFrequencies] :
          response' = [kind     |-> "analysis",
                       analysis |-> analyzeAudio(code, out, randomRms, randomFreq)]
    /\ UNCHANGED <<alive, jobVars>>

AnalyzeSpec == Init /\ [][AnalyzeAudioCall]_vars

(* --------------------- one success record on its own -------------------- *)
\* the levels generateSimulatedRMS draws, turn by turn: one of four draws in
\* which neighbouring frames differ
RmsDraw(shift) ==
    [i \in 1..FrameCount(MaxPreviewDur) |-> <<5, 10, 20, 34>>[((i + shift) % 4) + 1]]

\* the frequencies generateSimulatedFrequencies draws, turn by turn
FrequencyDraw(shift) ==
    [i \in 1..FrameCount(MaxPreviewDur) |-> <<150, 200, 249>>[((i + shift) % 3) + 1]]

\* the success record of one job: the analysis of an audio file of every
\* duration up to MaxPreviewDur, the record the job writes for it and the
\* object a poller parses from the result file
SuccessRecordCall ==
    /\ response = NoResponse
    /\ \E jobId \in Jobs, out \in (0..MaxPreviewDur) \cup {NaN}, shift \in 0..3 :
          LET audioAnalysis == analyzeAudio(0, out, RmsDraw(shift), FrequencyDraw(shift))
          IN  response' = [kind     |-> "successRecord",
                           jobId    |-> jobId,
                           analysis |-> audioAnalysis,
                           record   |-> JSONparse(JSONstringify(
                                            SuccessRecordOf(jobId, audioAnalysis,
                                                            finalVideoPath(jobId),
                                                            thumbnailPath(jobId))))]
    /\ UNCHANGED <<alive, jobVars>>

PreviewSpec == Init /\ [][SuccessRecordCall]_vars

(* ------------------------------- overlays ------------------------------- *)
\* Texts are sequences of characters; times are whole seconds.

\* 'DAEDALUS HOWELL & CO.'
IntroContent ==
    <<"D", "A", "E", "D", "A", "L", "U", "S", " ", "H", "O", "W", "E", "L",
      "L", " ", "&", " ", "C", "O", ".">>

\* 'Thanks for listening!\n'
ThanksContent ==
    <<"T", "h", "a", "n", "k", "s", " ", "f", "o", "r", " ", "l", "i", "s",
      "t", "e", "n", "i", "n", "g", "!", "\n">>

\* 'Sponsored by '
SponsoredBy ==
    <<"S", "p", "o", "n", "s", "o", "r", "e", "d", " ", "b", "y", " ">>

\* the times of  for (let time = 15; time < duration - 10; time += 600)
LowerThirdTimes(videoDuration) ==
    LET turns == {k \in 0..(videoDuration \div lowerThirdInterval) :
                     15 + k * lowerThirdInterval < videoDuration - 10}
    IN  [i \in 1..Cardinality(turns) |-> 15 + (i - 1) * lowerThirdInterval]

\* generateOverlayElements(config): intro, title card, the lower-thirds and
\* the end screen, in the order they are pushed
generateOverlayElements(config) ==
    LET lowerThirds == LowerThirdTimes(config.duration)
    IN  <<[type      |-> "intro",
           startTime |-> 0,
           duration  |-> 5,
           content   |-> IntroContent,
           position  |-> [x |-> 960, y |-> 540],
           style     |-> [fontSize |-> 72, color |-> "#ffffff",
                          backgroundColor |-> "#000000", opacity |-> 90]],
          [type      |-> "title-card",
           startTime |-> 5,
           duration  |-> 5,
           content   |-> config.title,
           position  |-> [x |-> 960, y |-> 540],
           style     |-> [fontSize |-> 48, color |-> "#ffffff",
                          backgroundColor |-> "#6366f1", opacity |-> 80]]>>
        \o [i \in DOMAIN lowerThirds |->
              [type      |-> "lower-third",
               startTime |-> lowerThirds[i],
               duration  |-> 8,
               content   |-> IF config.guest # <<>> THEN config.guest
                                                    ELSE config.title,
               position  |-> [x |-> 90, y |-> 890],
               style     |-> [fontSize |-> 32, color |-> "#ffffff",
                              backgroundColor |-> "#000000", opacity |-> 70]]]
        \o <<[type      |-> "end-screen",
               startTime |-> config.duration - 10,
               duration  |-> 10,
               content   |-> ThanksContent \o
                             (IF config.sponsor # <<>>
                              THEN SponsoredBy \o config.sponsor ELSE <<>>),
               position  |-> [x |-> 960, y |-> 540],
               style     |-> [fontSize |-> 36, color |-> "#ffffff",
                              backgroundColor |-> "#000000", opacity |-> 90]]>>

\* content.replace(/['\\]/g, '\\$&'): a backslash before every single quote
\* and every backslash, every other character as it is
RECURSIVE escapedContent(_)
escapedContent(content) ==
    IF content = <<>> THEN <<>>
    ELSE (IF Head(content) \in {"'", "\\"}
          THEN <<"\\", Head(content)>> ELSE <<Head(content)>>)
         \o escapedContent(Tail(content))

\* createTextFilter(overlay): the drawtext filter, option by option
createTextFilter(overlay) ==
    [filter    |-> "drawtext",
     text      |-> escapedContent(overlay.content),
     fontsize  |-> overlay.style.fontSize,
     fontcolor |-> overlay.style.color,
     x         |-> overlay.position.x,
     y         |-> overlay.position.y,
     enable    |-> [fn  |-> "between",
                    min |-> overlay.startTime,
                    max |-> overlay.startTime + overlay.duration],
     boxcolor  |-> overlay.style.backgroundColor,
     alpha     |-> overlay.style.opacity]

\* buildFilterComplex(overlays): the filters of the elements, in order, joined
\* with commas
buildFilterComplex(overlays) ==
    [i \in DOMAIN overlays |-> createTextFilter(overlays[i])]

\* the value of the enable expression between(t, min, max) at time t: 1 when
\* min <= t <= max
between(t, min, max) == min <= t /\ t <= max

\* texts a client submits: plain, and one with each character that has a
\* meaning in a filter expression
TextInputs ==
    {<<"a", "b">>, <<"a", "'", "b">>, <<"a", "\\", "b">>, <<"a", ":", "b">>,
     <<"a", ",", "b">>, <<"a", "%", "b">>, <<"a", "\n", "b">>}

\* guest and sponsor are optional
OptionalTextInputs == {<<>>, <<"g">>, <<"g", ":", "'">>}

\* durations of the video, in seconds
OverlayDurations ==
    (0..MaxOverlayDur) \cup {lowerThirdInterval + d : d \in 0..MaxOverlayDur}

\* addOverlays(videoPath, outputPath, config) up to the filter expression
addOverlays ==
    /\ response = NoResponse
    /\ \E title \in TextInputs, guest \in OptionalTextInputs,
          sponsor \in OptionalTextInputs, d \in OverlayDurations :
          LET config   == [title |-> title, guest |-> guest,
                           sponsor |-> sponsor, duration |-> d]
              overlays == generateOverlayElements(config)
          IN  response' = [kind          |-> "overlays",
                           config        |-> config,
                           overlays      |-> overlays,
                           filterComplex |-> buildFilterComplex(overlays)]
    /\ UNCHANGED <<alive, jobVars>>

OverlaySpec == Init /\ [][addOverlays]_vars

(* ----------------------------- frame synthesis -------------------------- *)
\* Visual parameters are in thousandths (saturation 80000 is 80).

\* seededRandom(seed)(): the first value of the generator, as its state over
\* the modulus 233280
seededRandom(seed) == (seed * 9301 + 49297) % 233280

\* randomInt(seed, min, max): Math.floor(min + random() * (max + 1 - min))
randomInt(seed, min, max) == min + (seededRandom(seed) * (max + 1 - min)) \div 233280

\* randomChoice(seed, array): array[randomInt(seed, 0, array.length - 1)]
randomChoice(seed, array) == array[randomInt(seed, 0, Len(array) - 1) + 1]

\* mutant of calculateVisualParams: every style returns the base values, the
\* saturation and brightness without Math.min / Math.max
calculateVisualParamsUnclamped(time, rms, vocalEnergy, frequency, preset, seed) ==
    [hue               |-> ((time * 10000) \div Fps) % 360000,
     saturation        |-> 50000 + rms * 1000,
     brightness        |-> 50000 + vocalEnergy * 300,
     energyMultiplier  |-> 1000 + rms * 20,
     motionIntensity   |-> 1000 + rms * 20,
     jumpCutIntensity  |-> 0,
     filmGrainIntensity |-> 100 + rms * 2,
     contrastMultiplier |-> 1000 + rms * 10]

\* calculateVisualParams for a preset of the catalog (generateVideo passes no
\* other): the switch returns from the preset's case, so the base hue,
\* saturation and brightness computed before it are not used
calculateVisualParams(time, rms, vocalEnergy, frequency, preset, seed) ==
    CASE preset = "French New Wave" ->
            [hue               |-> 0,
             saturation        |-> 0,
             brightness        |-> IF rms > 20 THEN 80000 ELSE 20000,
             energyMultiplier  |-> 1000 + rms * 20,
             motionIntensity   |-> 1000 + rms * 30,
             jumpCutIntensity  |-> IF rms > 15 THEN 800 ELSE 0,
             filmGrainIntensity |-> 300 + rms * 4,
             contrastMultiplier |-> 1000 + rms * 20]
      [] preset = "'80s Retro Chromatic" ->
            [hue               |-> randomChoice(seed, <<0, 180, 300, 60>>) * 1000,
             saturation        |-> 80000 + rms * 200,
             brightness        |-> 60000 + vocalEnergy * 200,
             energyMultiplier  |-> 1000 + rms * 20,
             motionIntensity   |-> 500 + rms * 20,
             jumpCutIntensity  |-> 0,
             filmGrainIntensity |-> 200 + rms * 3,
             contrastMultiplier |-> 1200 + rms * 15]
      [] preset = "Wine-Country Dreamscape" ->
            [hue               |-> randomChoice(seed, <<30, 45, 60, 15>>) * 1000,
             saturation        |-> 40000 + rms * 300,
             brightness        |-> 50000 + vocalEnergy * 150,
             energyMultiplier  |-> 1000 + rms * 20,
             motionIntensity   |-> 300 + rms * 10,
             jumpCutIntensity  |-> 0,
             filmGrainIntensity |-> 100 + rms * 2,
             contrastMultiplier |-> 800 + rms * 5]

\* array[index] || fallback: the fallback when the index is outside the array
\* or the element is 0
ElementOr(array, index, fallback) ==
    IF index + 1 \in DOMAIN array /\ array[index + 1] # 0
    THEN array[index + 1] ELSE fallback

\* generateFrameData(time, config) for time = frame * (1 / fps), called when
\* Date.now() reads now
generateFrameData(frame, config, now) ==
    LET frameNumber     == frame    \* frameIndex = Math.floor(time * config.fps)
        baseSeed        == IF config.seed # 0 THEN config.seed ELSE now
        audioFrameIndex == (frame * config.audioAnalysis.sampleRate)
                              \div (config.fps * 1024)
        rms         == ElementOr(config.audioAnalysis.rms, audioFrameIndex, 10)
        vocalEnergy == ElementOr(config.audioAnalysis.vocalEnergy, audioFrameIndex, 50)
        frequency   == ElementOr(config.audioAnalysis.frequencies, audioFrameIndex, 150)
    IN  [time         |-> frame,
         rms          |-> rms,
         vocalEnergy  |-> vocalEnergy,
         frequency    |-> frequency,
         visualParams |-> calculateVisualParams(frame, rms, vocalEnergy, frequency,
                                                config.stylePreset,
                                                baseSeed + frameNumber),
         seed         |-> baseSeed + frameNumber]

\* frames synthesized: time = frame / Fps
FrameTimes == 0..MaxTime

\* seeds a VideoConfig may carry (seed?: number), 0 included
Seeds == 0..MaxSeed

\* readings of Date.now(): later than any seed
Clocks == (MaxSeed + 1)..(MaxSeed + 2)

\* analyses given to frame synthesis: up to two analysis frames, silent (0)
\* or not
AnalysisInputs ==
    {[rms         |-> rms,
      frequencies |-> [i \in DOMAIN rms |-> 150],
      vocalEnergy |-> calculateVocalEnergy([i \in DOMAIN rms |-> 150]),
      sampleRate  |-> SampleRate] :
        rms \in UNION {[1..n -> {0, 30}] : n \in 0..2}}

\* audio levels given to calculateVisualParams: the ends of [0, 1] and the two
\* thresholds of the monochrome style (0.15, 0.2) from both sides
RmsInputs == {0, 15, 16, 20, 21, 100}

VocalEnergyInputs == {0, 50, 100}

FrequencyInputs == {0, 150}

\* two runs of generateFrameData on the same time and config, at two readings
\* of the clock
SynthesizeTwice ==
    /\ response = NoResponse
    /\ \E frame \in FrameTimes, preset \in PresetNames, seed \in Seeds,
          analysis \in AnalysisInputs, now1 \in Clocks, now2 \in Clocks :
          LET config == [fps |-> Fps, stylePreset |-> preset,
                         audioAnalysis |-> analysis, seed |-> seed]
          IN  response' = [kind   |-> "frameData",
                           frame  |-> frame,
                           config |-> config,
                           first  |-> generateFrameData(frame, config, now1),
                           second |-> generateFrameData(frame, config, now2)]
    /\ UNCHANGED <<alive, jobVars>>

\* one call of calculateVisualParams
CalculateVisualParamsCall ==
    /\ response = NoResponse
    /\ \E frame \in FrameTimes, rms \in RmsInputs, vocalEnergy \in VocalEnergyInputs,
          frequency \in FrequencyInputs, preset \in PresetNames, seed \in Seeds :
          response' = [kind   |-> "visualParams",
                       rms    |-> rms,
                       preset |-> preset,
                       seed   |-> seed,
                       params |-> calculateVisualParams(frame, rms, vocalEnergy,
                                                        frequency, preset, seed)]
    /\ UNCHANGED <<alive, jobVars>>

SynthNext == SynthesizeTwice \/ CalculateVisualParamsCall

SynthSpec == Init /\ [][SynthNext]_vars

(* ----------------------------- frame rendering -------------------------- *)
\* the value of a member an object does not have
Undefined == -2

\* const { key } = object
Member(object, key) == IF key \in DOMAIN object THEN object[key] ELSE Undefined

\* a * b of two JavaScript values: NaN when one of them is undefined or NaN
Multiply(a, b) == IF {a, b} \cap {NaN, Undefined} # {} THEN NaN ELSE a * b

\* generateSVGFrame(frameData, width, height): the background colour, the set
\* of decorative elements and the pulse circle of the SVG
generateSVGFrame(frameData) ==
    LET hue              == Member(frameData, "hue")
        saturation       == Member(frameData, "saturation")
        brightness       == Member(frameData, "brightness")
        energyMultiplier == Member(frameData, "energyMultiplier")
        motionIntensity  == Member(frameData, "motionIntensity")
        jumpCutIntensity == Member(frameData, "jumpCutIntensity")
    IN  [bgColor     |-> [hue |-> hue, saturation |-> saturation,
                          brightness |-> brightness],
         elements    |-> IF jumpCutIntensity # Undefined /\ Less(0, jumpCutIntensity)
                         THEN "FrenchNewWave" ELSE "AudioReactive",
         r           |-> Multiply(50, energyMultiplier),
         strokeWidth |-> Multiply(2, motionIntensity)]

\* one turn of the loop of generateFrames up to the SVG: the descriptor of
\* generateFrameData is handed to renderFrame, which builds the SVG from it
renderFrame ==
    /\ response = NoResponse
    /\ \E frame \in FrameTimes, preset \in PresetNames, seed \in Seeds,
          analysis \in AnalysisInputs, now \in Clocks :
          LET config    == [fps |-> Fps, stylePreset |-> preset,
                            audioAnalysis |-> analysis, seed |-> seed]
              frameData == generateFrameData(frame, config, now)
          IN  response' = [kind      |-> "svgFrame",
                           frameData |-> frameData,
                           svg       |-> generateSVGFrame(frameData)]
    /\ UNCHANGED <<alive, jobVars>>

RenderSpec == Init /\ [][renderFrame]_vars

(* ------------------------------------------------------------------------ *)
(*                               properties                                 *)
(* ------------------------------------------------------------------------ *)
Range(s) == {s[i] : i \in DOMAIN s}

Accepted(j) == pc[j] # "idle"

Terminal(j) == pc[j] \in {"done", "failed"}

\* the job's lifetime is over: its callback finished, or its process is gone
JobOver(j) == Accepted(j) /\ (Terminal(j) \/ ~alive)

IsSuccessRecord(r) == "success" \in DOMAIN r /\ r.success = TRUE

\* the failure shape of the spec: success is present and false
HasSuccessFalse(r) == "success" \in DOMAIN r /\ r.success = FALSE

\* the record's error text (error, details) contains the name
Mentions(r, name) ==
    /\ "details" \in DOMAIN r
    /\ (r.error = name \/ r.details.text = name \/ r.details.arg = name)

StageIndex(stage) == CHOOSE n \in 1..Len(StageOrder) : StageOrder[n] = stage

\* the stage whose child process job j is waiting for
RunningStage(j) ==
    CASE pc[j] = "analyzing"    -> "analyze"
      [] pc[j] = "rendering"    -> "frames"
      [] pc[j] = "encoding"     -> "encode"
      [] pc[j] = "overlaying"   -> "overlay"
      [] pc[j] = "thumbnailing" -> "thumbnail"
      [] OTHER                  -> "none"

\* frames of job j that are rendered and that its encoder has yet to read
FramesInUse(j) ==
    CASE pc[j] = "rendering" -> {i \in FrameSlots : i < frameIndex[j]}
      [] pc[j] = "encoding"  -> {i \in FrameSlots : Less(i, TotalFrames(duration[j]))}
      [] OTHER               -> {}

\* a <= b and a = b of two JavaScript numbers (false whenever one is NaN)
LessEq(a, b) == a # NaN /\ b # NaN /\ a <= b
NumEq(a, b)  == a # NaN /\ b # NaN /\ a = b

\* C1: for every accepted job the terminal result record is written exactly
\* once over the job's lifetime: never twice, and never zero times once the
\* lifetime of the job is over; no record exists for a job that was not accepted.
C1_ResultWrittenExactlyOnce ==
    \A j \in Jobs :
        /\ Len(resultLog[j]) <= 1
        /\ (~Accepted(j) => resultLog[j] = <<>>)
        /\ (JobOver(j) => Len(resultLog[j]) = 1)

\* C2: the stages of a job start in the order analyze, frames, encode, overlay,
\* thumbnail, result; a stage starts only right after the previous stage of the
\* same job ended successfully, a stage ends only after it started, and a
\* success record exists only after the thumbnail stage succeeded.
C2_StagesInOrder ==
    \A j \in Jobs :
        LET t == trace[j]
        IN  /\ \A i \in 1..Len(t) :
                 IF t[i].ev = "start"
                 THEN LET n == StageIndex(t[i].stage)
                      IN  IF n = 1 THEN i = 1
                          ELSE i > 1 /\ t[i - 1] = Event(StageOrder[n - 1], "ok")
                 ELSE i > 1 /\ t[i - 1] = Event(t[i].stage, "start")
            /\ (RunningStage(j) # "none" =>
                  t # <<>> /\ t[Len(t)] = Event(RunningStage(j), "start"))
            /\ ((\E r \in Range(resultLog[j]) : IsSuccessRecord(r)) =>
                  /\ Event("thumbnail", "ok") \in Range(t)
                  /\ t[Len(t)] = Event("result", "ok"))

C2_Witness ==
    \E j \in Jobs : pc[j] = "done" /\ frameIndex[j] = 2 /\ Len(trace[j]) = 12

\* C3: every accepted job eventually has its terminal record written, given
\* that every queued callback runs and every started child process exits.
C3_EventuallyTerminalRecord ==
    \A j \in Jobs : (pc[j] # "idle") ~> (resultLog[j] # <<>>)

\* C4: once a stage of a job has failed nothing of the job runs again: the
\* failure is the last stage event of the job, the job is in failed with its
\* failure record written, and no step of the job is enabled.
C4_FailureIsFinal ==
    \A j \in Jobs :
        \A i \in 1..Len(trace[j]) :
            trace[j][i].ev = "fail" =>
                /\ i = Len(trace[j])
                /\ pc[j] = "failed"
                /\ Len(resultLog[j]) = 1
                /\ ~IsSuccessRecord(resultLog[j][1])
                /\ ~ENABLED JobStep(j)

C4_Witness ==
    \E j \in Jobs :
        /\ pc[j] = "failed"
        /\ frameIndex[j] = 2
        /\ trace[j][Len(trace[j])] = Event("overlay", "fail")

\* C5: while a job is rendering or encoding, every frame image it has rendered
\* is still the one it wrote: no other job has written that file.
C5_FramesPrivate ==
    \A j \in Jobs : \A i \in FramesInUse(j) : frames[i] = j

\* C6: the records written to a job's progress file have a non-decreasing
\* current, and once frame generation finished the last one has
\* current == total.
C6_ProgressMonotone ==
    \A j \in Jobs :
        LET log == progressLog[j]
        IN  /\ \A i \in 1..(Len(log) - 1) : LessEq(log[i].current, log[i + 1].current)
            /\ (Event("frames", "ok") \in Range(trace[j]) =>
                  NumEq(log[Len(log)].current, log[Len(log)].total))

\* C7: a progress poll returns NotFound or a complete record that the job
\* wrote to its progress file, never a value built from anything else.
C7_PollSeesCompleteRecord ==
    response.kind = "progress" =>
        \/ ~response.progress.found
        \/ Record(response.progress.currentFrame, response.progress.totalFrames)
              \in Range(progressLog[response.jobId])

C7_Witness ==
    /\ response.kind = "progress"
    /\ pc[response.jobId] = "rendering"
    /\ frameIndex[response.jobId] = 1
    /\ response.progress = [found |-> TRUE, currentFrame |-> 0, totalFrames |-> 2]

\* C8: the step that accepts an upload answers 202 with an identifier no job
\* had before and leaves the job queued: no stage of it has started and nothing
\* but the progress placeholder is written; and a job comes into being only in
\* such a step.
C8_AcceptedBeforeAnyStage ==
    [][/\ (response' # response /\ response'.kind = "upload" /\ response'.status = 202) =>
            LET j == response'.jobId
            IN  /\ j \in Jobs
                /\ pc[j] = "idle" /\ progressLog[j] = <<>>
                /\ pc'[j] = "queued"
                /\ trace'[j] = <<>>
                /\ resultLog'[j] = <<>>
                /\ \A i \in FrameSlots : frames'[i] = frames[i]
       /\ \A j \in Jobs :
            (pc[j] = "idle" /\ pc'[j] # "idle") =>
                /\ response'.kind = "upload"
                /\ response'.status = 202
                /\ response'.jobId = j
      ]_vars

C8_Witness ==
    /\ response.kind = "upload"
    /\ response.status = 202
    /\ response.jobId = 2
    /\ pc[1] = "rendering"
    /\ pc[2] = "queued"

\* C9: a job with a style name outside the catalog ends with one terminal
\* record that has success = false and an error text containing the style
\* name; it generates no frame, never starts the encoder and never succeeds.
C9_UnknownStyleFails ==
    \A j \in Jobs :
        (Accepted(j) /\ ~PresetFound(style[j])) =>
            /\ pc[j] \notin {"rendering", "encoding", "overlaying", "thumbnailing", "done"}
            /\ \A i \in FrameSlots : frames[i] # j
            /\ (Terminal(j) =>
                  /\ Len(resultLog[j]) = 1
                  /\ HasSuccessFalse(resultLog[j][1])
                  /\ Mentions(resultLog[j][1], style[j]))

\* C10 as stated: no job is ever created for a submission with an unsupported
\* style name or without an audio file.
C10_InvalidSubmissionCreatesNoJob ==
    /\ \A j \in Jobs : Accepted(j) => PresetFound(style[j])
    /\ (response.kind = "upload" /\ response.status = 202) =>
           response.upload.hasAudio /\ PresetFound(response.stylePreset)

\* C10 amended: a submission without an audio file is answered 400 without a
\* job identifier and changes nothing of any job (no progress file, nothing
\* scheduled); a saved audio upload with a style name outside the catalog is
\* accepted: it is answered 202 and its job is queued with that style.
C10_MissingAudioRejectedUnknownStyleAccepted ==
    [][(response' # response /\ response'.kind = "upload") =>
         /\ (~response'.upload.hasAudio =>
                /\ response'.status = 400
                /\ response'.jobId = NoJob
                /\ UNCHANGED jobVars)
         /\ (ResponseStatus(response'.upload) = 202 =>
                /\ response'.status = 202
                /\ response'.jobId \in Jobs
                /\ pc'[response'.jobId] = "queued"
                /\ style'[response'.jobId] = response'.stylePreset)
      ]_vars

C10_Witness ==
    /\ response.kind = "upload"
    /\ ~response.upload.hasAudio
    /\ response.stylePreset = "Nonexistent Style"
    /\ pc[1] = "rendering"
    /\ pc[2] = "idle"

\* C11: whenever a stage of the background job failed, the terminal record has
\* the failure shape: success is present and false, and jobId, error and
\* details are present.
C11_FailureRecordShape ==
    \A j \in Jobs :
        (\E e \in Range(trace[j]) : e.ev = "fail") =>
            /\ Len(resultLog[j]) = 1
            /\ HasSuccessFalse(resultLog[j][1])
            /\ {"jobId", "error", "details"} \subseteq DOMAIN resultLog[j][1]

\* C12: if the overlay pass failed, the job is in failed, its one terminal
\* record (in the log and in the result file) is no success record and has no
\* videoPath, and the thumbnail stage never started.
C12_OverlayFailureNoVideo ==
    \A j \in Jobs :
        Event("overlay", "fail") \in Range(trace[j]) =>
            /\ pc[j] = "failed"
            /\ Len(resultLog[j]) = 1
            /\ ~IsSuccessRecord(resultLog[j][1])
            /\ "videoPath" \notin DOMAIN resultLog[j][1]
            /\ resultFile[j].exists
            /\ "videoPath" \notin DOMAIN JSONparse(resultFile[j].content)
            /\ Event("thumbnail", "start") \notin Range(trace[j])

C12_Witness ==
    \E j \in Jobs :
        /\ Event("overlay", "fail") \in Range(trace[j])
        /\ Event("encode", "ok") \in Range(trace[j])
        /\ frameIndex[j] = 1
        /\ resultFile[j].exists

\* C13: if the encoder exited nonzero, the terminal record has success = false
\* and no videoPath, neither the overlay nor the thumbnail stage started, and
\* the job takes no further step (it leaves its frames as they are).
C13_EncoderFailure ==
    \A j \in Jobs :
        Event("encode", "fail") \in Range(trace[j]) =>
            /\ Len(resultLog[j]) = 1
            /\ HasSuccessFalse(resultLog[j][1])
            /\ "videoPath" \notin DOMAIN resultLog[j][1]
            /\ Event("overlay", "start") \notin Range(trace[j])
            /\ Event("thumbnail", "start") \notin Range(trace[j])
            /\ ~ENABLED JobStep(j)

\* C14: a status poll answers 202 'pending' exactly while no terminal record
\* of the job exists; once the record exists the poll answers 200 with that
\* record (as JSON carries it), which is the one record the job ever wrote, so
\* every later poll returns the same content.
C14_StatusPoll ==
    response.kind = "result" =>
        LET j == response.jobId
        IN  /\ Len(resultLog[j]) <= 1
            /\ (resultLog[j] = <<>> =>
                   response.status = 202 /\ response.body = [status |-> "pending"])
            /\ (resultLog[j] # <<>> =>
                   /\ response.status = 200
                   /\ response.body = JSONparse(JSONstringify(resultLog[j][1]))
                   /\ DOMAIN response.body = DOMAIN resultLog[j][1]
                   /\ response.body.jobId = j)

C14_Witness ==
    /\ response.kind = "result"
    /\ response.status = 200
    /\ "success" \in DOMAIN response.body
    /\ pc[response.jobId] = "done"
    /\ \E j \in Jobs : pc[j] = "analyzing"

\* C15: a progress poll for a job whose background work has not started
\* (the job does not exist yet, or its callback is still queued) returns
\* not found.
C15_PollBeforeStartNotFound ==
    (response.kind = "progress" /\ pc[response.jobId] \in {"idle", "queued"}) =>
        ~response.progress.found

\* C16: once frame generation of a job is over, every progress poll for the
\* job returns current == total == totalFrames, during encoding, overlaying,
\* thumbnailing and after the terminal record.
C16_PollAfterLastFrame ==
    (response.kind = "progress"
       /\ Event("frames", "ok") \in Range(trace[response.jobId])) =>
        /\ response.progress.found
        /\ NumEq(response.progress.currentFrame, response.progress.totalFrames)
        /\ NumEq(response.progress.totalFrames,
                 TotalFrames(duration[response.jobId]))

\* one record '<digits>/<digits>' and nothing else
WellFormed(s) ==
    \E i \in 2..(Len(s) - 1) :
        s[i] = "/" /\ \A k \in (1..Len(s)) \ {i} : IsDigit(s[k])

\* C17: reading a progress file reports a progress value only if the content,
\* surrounding whitespace aside, is one well-formed record '<digits>/<digits>';
\* every other content reads as not found.
C17_OnlyWellFormedParses ==
    (response.kind = "progress" /\ response.progress.found) =>
        WellFormed(Trim(progressFile[response.jobId].content))

\* C18: two runs of frame synthesis on the same time, analysis, style and job
\* seed return the same frame descriptor, for every seed, 0 included, whatever
\* the clock reads.
C18_SynthesisDeterministic ==
    response.kind = "frameData" => response.first = response.second

C20_AnalysisLengths ==
    (response.kind = "analysis" /\ response.analysis.ok) =>
        LET a == response.analysis
            n == FrameCount(a.duration)
        IN  /\ NumEq(Len(a.rms), n)
            /\ NumEq(Len(a.frequencies), n)
            /\ NumEq(Len(a.vocalEnergy), n)
            /\ NumEq(Len(a.silence), n)

\* C21: analysis succeeds only with a determined duration: a job whose
\* analysis stage ended successfully has a duration that is a number.
C21_UndeterminedDurationFails ==
    \A j \in Jobs :
        Event("analyze", "ok") \in Range(trace[j]) => duration[j] # NaN

\* C22: rasterizing never stalls a job: while a job (the only one there is)
\* waits for the converter of a frame, the process is running, so the
\* converter's end will be handled and the loop will go on.
C22_RasterizingNeverStalls ==
    \A j \in Jobs :
        (pc[j] = "rendering" /\ \A o \in Jobs \ {j} : pc[o] = "idle") => alive

\* C24: in every success record videoPath is the file the overlay pass wrote
\* from the encoder's output, not the encoder's output itself, thumbnailPath
\* is the file the thumbnail pass made from that video, and both passes
\* ended with status 0.
C24_SuccessReportsOverlaidVideo ==
    \A j \in Jobs :
        \A r \in Range(resultLog[j]) :
            IsSuccessRecord(r) =>
                /\ r.videoPath.name = "final"
                /\ r.videoPath # tempVideoPath(dateNow[j]["video"])
                /\ FileRecord(r.videoPath, "overlay",
                              tempVideoPath(dateNow[j]["video"])) \in uploadsDir[j]
                /\ FileRecord(r.thumbnailPath, "thumbnail", r.videoPath) \in uploadsDir[j]
                /\ Event("overlay", "ok") \in Range(trace[j])
                /\ Event("thumbnail", "ok") \in Range(trace[j])
                /\ JSONparse(resultFile[j].content).videoPath = r.videoPath

C24_Witness ==
    /\ pc[1] = "done"
    /\ IsSuccessRecord(resultLog[1][1])
    /\ pc[2] = "failed"
    /\ Event("thumbnail", "fail") \in Range(trace[2])

\* the stage an error text of the pipeline comes from
StageOfError(text) ==
    CASE text = "Failed to analyze audio file"                 -> "analyze"
      [] text = "Style preset not found"                       -> "frames"
      [] text = "FFmpeg compilation failed with code"          -> "encode"
      [] text = "FFmpeg overlay failed with code"              -> "overlay"
      [] text = "FFmpeg thumbnail generation failed with code" -> "thumbnail"
      [] OTHER                                                 -> "none"

C29_RejectedUploadLeavesNoTrace ==
    [][(/\ response' # response
        /\ response'.kind = "upload"
        /\ (\/ ~response'.upload.hasAudio
            \/ ~response'.upload.sizeOk
            \/ ~response'.upload.typeOk)) =>
         /\ response'.status = 400
         /\ response'.jobId = NoJob
         /\ uploadsDir' = uploadsDir
         /\ progressFile' = progressFile
         /\ resultFile' = resultFile
         /\ pc' = pc
         /\ UNCHANGED jobVars
      ]_vars

C29_Witness ==
    /\ response.kind = "upload"
    /\ ~response.upload.sizeOk
    /\ response.status = 400
    /\ pc[1] = "done"
    /\ pc[2] = "idle"
    /\ uploadsDir[2] = {}

\* C30: the record written after a frame was rendered has as current the
\* number of frames rendered so far and as total the job's frame count: the
\* write after the n-th frame (the (n+1)-th record of the file, the first being
\* the placeholder) is n / total.
C30_ProgressCountsRenderedFrames ==
    \A j \in Jobs :
        \A n \in 1..(Len(progressLog[j]) - 1) :
            Less(n - 1, TotalFrames(duration[j])) =>
                progressLog[j][n + 1] = Record(n, TotalFrames(duration[j]))

\* C23: in every success record each of analysis.rms, analysis.vocalEnergy and
\* analysis.silence is the first min(100, n) elements, in order, of the
\* analysis sequence of length n it previews, and the record has the members
\* jobId, videoPath, thumbnailPath and duration.
C23_PreviewIsFirstHundred ==
    response.kind = "successRecord" =>
        LET r == response.record
        IN  /\ {"jobId", "videoPath", "thumbnailPath", "duration"} \subseteq DOMAIN r
            /\ r.jobId = response.jobId
            /\ \A k \in {"rms", "vocalEnergy", "silence"} :
                   LET whole   == response.analysis[k]
                       preview == r.analysis[k]
                   IN  /\ Len(preview) = Min({100, Len(whole)})
                       /\ \A i \in 1..Len(preview) : preview[i] = whole[i]

C23_Witness ==
    /\ response.kind = "successRecord"
    /\ Len(response.analysis.rms) = 102
    /\ Len(response.record.analysis.rms) = 100
    /\ response.record.analysis.rms[99] # response.record.analysis.rms[100]
    /\ response.analysis.rms[101] # response.record.analysis.rms[100]

\* the overlay elements of a type in a timeline
OfType(overlays, type) == {e \in Range(overlays) : e.type = type}

\* C25: a lower-third is in the timeline only if its whole 8-second window
\* ends no later than duration - 10: lower-thirds start at 15 + 600 k, and
\* none overlaps the end screen's window [duration - 10, duration).
C25_LowerThirdClearOfEndScreen ==
    response.kind = "overlays" =>
        \A e \in OfType(response.overlays, "lower-third") :
            /\ (e.startTime - 15) % lowerThirdInterval = 0
            /\ e.duration = 8
            /\ e.startTime + e.duration <= response.config.duration - 10
            /\ \A s \in OfType(response.overlays, "end-screen") :
                   e.startTime + e.duration <= s.startTime

\* C26: at every time t of the video each element's filter is enabled exactly
\* when start <= t < start + duration, so the intro and the title card are
\* never enabled at the same time.
C26_EnableWindowHalfOpen ==
    response.kind = "overlays" =>
        \A t \in 0..(response.config.duration - 1) :
            /\ \A i \in DOMAIN response.overlays :
                   LET e == response.overlays[i]
                       f == response.filterComplex[i]
                   IN  between(t, f.enable.min, f.enable.max)
                           <=> (e.startTime <= t /\ t < e.startTime + e.duration)
            /\ ~(/\ between(t, response.filterComplex[1].enable.min,
                               response.filterComplex[1].enable.max)
                  /\ between(t, response.filterComplex[2].enable.min,
                               response.filterComplex[2].enable.max))

\* the characters with a meaning in a filter expression
FilterSpecials == {"'", "\\", ":", ",", "%", "\n"}

\* a special character of the text has no backslash before it
RECURSIVE HasUnescapedSpecial(_)
HasUnescapedSpecial(text) ==
    IF text = <<>> THEN FALSE
    ELSE IF Head(text) = "\\"
         THEN Len(text) = 1 \/ HasUnescapedSpecial(SubSeq(text, 3, Len(text)))
         ELSE Head(text) \in FilterSpecials \/ HasUnescapedSpecial(Tail(text))

\* C27: in the filter expression every special character of a text (single
\* quote, backslash, colon, comma, percent sign, line break) is escaped, and
\* there is one drawtext filter per overlay element.
C27_SpecialCharactersEscaped ==
    response.kind = "overlays" =>
        /\ Len(response.filterComplex) = Len(response.overlays)
        /\ \A i \in DOMAIN response.filterComplex :
               /\ response.filterComplex[i].filter = "drawtext"
               /\ ~HasUnescapedSpecial(response.filterComplex[i].text)

\* C31: frame generation of a job of duration d renders exactly
\* N = floor(d * 30) frames: once it is over, the progress file was written
\* once after each of the frames 0 .. N - 1, in ascending order, with total N,
\* and one last time with N/N, and the frames 0 .. N - 1 are in the frame
\* directory; 30 seconds give 900 frames.
C31_FramesRenderedOnceInOrder ==
    /\ TotalFrames(30 * DurationScale) = 900
    /\ \A j \in Jobs :
          Event("frames", "ok") \in Range(trace[j]) =>
              LET N   == TotalFrames(duration[j])
                  log == progressLog[j]
              IN  /\ NumEq(Len(log) - 2, N)
                  /\ \A n \in 1..(Len(log) - 2) : log[n + 1] = Record(n - 1, N)
                  /\ log[Len(log)] = Record(N, N)
                  /\ \A k \in FrameSlots : k < N => frames[k] \in Jobs

\* C32: frame synthesis uses the analysis values stored at index
\* floor(time * sampleRate / 1024) whenever the index is inside the sequences,
\* whatever the values are (0 included), and the defaults rms 0.1, vocal energy
\* 0.5 and frequency 150 only when the index is outside.
C32_StoredValuesUsed ==
    response.kind = "frameData" =>
        LET a     == response.config.audioAnalysis
            index == (response.frame * a.sampleRate) \div (response.config.fps * 1024)
            At(array, default) ==
                IF index + 1 \in DOMAIN array THEN array[index + 1] ELSE default
        IN  /\ response.first.rms = At(a.rms, 10)
            /\ response.first.vocalEnergy = At(a.vocalEnergy, 50)
            /\ response.first.frequency = At(a.frequencies, 150)

\* C35: for the monochrome style the saturation is 0 and one rms threshold
\* drives both signals: jumpCutIntensity is nonzero for exactly the rms values
\* for which the brightness is high (80); for the other two styles
\* jumpCutIntensity is 0.
C35_OneThresholdDrivesBoth ==
    response.kind = "visualParams" =>
        IF response.preset = "French New Wave"
        THEN /\ response.params.saturation = 0
             /\ response.params.brightness \in {20000, 80000}
             /\ (response.params.jumpCutIntensity # 0
                    <=> response.params.brightness = 80000)
        ELSE response.params.jumpCutIntensity = 0

\* C34: every frame is drawn from the visual parameters computed for it: the
\* background hue, saturation and brightness, the pulse radius
\* 50 x energyMultiplier, the stroke width 2 x motionIntensity and the choice
\* of the jump-cut elements (taken exactly when jumpCutIntensity > 0) are
\* those of the descriptor generateFrameData returned.
C34_FrameDrawnFromDescriptor ==
    response.kind = "svgFrame" =>
        LET params == response.frameData.visualParams
            svg    == response.svg
        IN  /\ svg.bgColor = [hue        |-> params.hue,
                              saturation |-> params.saturation,
                              brightness |-> params.brightness]
            /\ svg.r = 50 * params.energyMultiplier
            /\ svg.strokeWidth = 2 * params.motionIntensity
            /\ (svg.elements = "FrenchNewWave" <=> params.jumpCutIntensity > 0)

\* C33: while the encoder of a job runs, the images it reads are exactly the
\* frames 0 .. N - 1 this job generated: each was written by this job, and no
\* image of an earlier job (with index >= N) is part of the input.
C33_EncoderReadsOwnFrames ==
    \A j \in Jobs :
        pc[j] = "encoding" =>
            \A i \in FrameSlots :
                /\ (i \in EncoderInput <=> Less(i, TotalFrames(duration[j])))
                /\ (i \in EncoderInput => frames[i] = j)

\* the paths job j has given to its files
PathsOf(j) ==
    {[name |-> kind, ms |-> dateNow[j][kind]] : kind \in DOMAIN dateNow[j]}

\* C36: two distinct jobs use distinct paths for their audio, their
\* intermediate video, their final video and their thumbnail, also when they
\* name them in the same millisecond: no file of one job has the path of a
\* file of the other, and no success record reports another job's file.
C36_JobsUseDistinctPaths ==
    \A j \in Jobs : \A o \in Jobs \ {j} :
        /\ PathsOf(j) \cap PathsOf(o) = {}
        /\ \A f \in uploadsDir[j] : \A g \in uploadsDir[o] : f.path # g.path
        /\ \A r \in Range(resultLog[j]) :
               IsSuccessRecord(r) =>
                   \A g \in uploadsDir[o] :
                       g.path \notin {r.videoPath, r.thumbnailPath}

\* C37: for every video duration > 0, every overlay element generated has a
\* window inside the video: its start is >= 0 and its start plus its duration
\* is at most the video's duration, the intro, the title card and the end
\* screen of a video shorter than 20 seconds included
C37_OverlayWindowsInsideVideo ==
    (response # NoResponse /\ response.kind = "overlays"
        /\ response.config.duration > 0) =>
        \A e \in Range(response.overlays) :
            /\ e.startTime >= 0
            /\ e.startTime + e.duration <= response.config.duration

====
